---- MODULE Spec2Model ----
(***************************************************************************)
(* Public timeline of ikemHood/mip-dapp:                                   *)
(*   src/src/hooks/use-public-timeline.ts  (usePublicTimeline, the loader) *)
(*   src/src/components/timeline.tsx       (Timeline, filter/sort/paging)  *)
(*                                                                         *)
(* React state is modelled at the granularity of the event loop: a handler *)
(* runs to completion, and the re-render and the effects its state updates *)
(* cause are part of the same step.  The two suspension points (the await  *)
(* of the collection service and the await of the 400 ms timer) split      *)
(* their functions into a start step and a completion step.  A completion  *)
(* step of loadMore runs in the closure of the render in which loadMore    *)
(* was called, so it reads the currentPage and filteredAssets.length of    *)
(* that render; fetchedRef is a ref and is always read current.            *)
(*                                                                         *)
(* Strings are sequences of one-character strings.  The optional string    *)
(* `error` is <<>> for null and <<m>> for the message m.                   *)
(***************************************************************************)
EXTENDS Integers, Sequences, FiniteSets, TLC

(***************************************************************************)
(* Bounds of the model.                                                    *)
(***************************************************************************)
MaxPending == 2      \* collection requests simultaneously awaited
MaxAdvances == 2     \* loadMore calls simultaneously awaiting their timer
BigLen == 25         \* length of the largest collection the service returns
MaxSortLen == 3      \* length of the longest answer given to the comparator

(***************************************************************************)
(* Program constants.                                                      *)
(***************************************************************************)
ASSETS_PER_PAGE == 10
ScrollThreshold == 1000

----------------------------------------------------------------------------
(***************************************************************************)
(* JavaScript string and array primitives used by the source.              *)
(***************************************************************************)
Min(a, b) == IF a <= b THEN a ELSE b
Max(a, b) == IF a >= b THEN a ELSE b

\* String.prototype.toLowerCase, one character
LowerChar(c) ==
    CASE c = "A" -> "a"
      [] c = "B" -> "b"
      [] c = "C" -> "c"
      [] c = "M" -> "m"
      [] c = "O" -> "o"
      [] c = "P" -> "p"
      [] c = "Z" -> "z"
      [] OTHER -> c

\* String.prototype.toLowerCase
toLowerCase(s) == [i \in 1..Len(s) |-> LowerChar(s[i])]

\* String.prototype.includes: sub occurs in s as a contiguous substring
includes(s, sub) ==
    \E i \in 0..(Len(s) - Len(sub)) : SubSeq(s, i + 1, i + Len(sub)) = sub

\* Array.prototype.includes
arrayIncludes(arr, v) == \E i \in 1..Len(arr) : arr[i] = v

\* Array.prototype.slice(start, end): negative indices count from the end,
\* both are clamped to [0, length]
slice(arr, start, end) ==
    LET len == Len(arr)
        from == IF start < 0 THEN Max(len + start, 0) ELSE Min(start, len)
        to == IF end < 0 THEN Max(len + end, 0) ELSE Min(end, len)
    IN SubSeq(arr, from + 1, to)

IsWhitespace(c) == c = " "

\* s.replace(/\s+/g, "-"): every maximal run of whitespace becomes one hyphen
RECURSIVE replaceWhitespaceRuns(_)
replaceWhitespaceRuns(s) ==
    IF s = <<>> THEN <<>>
    ELSE IF IsWhitespace(Head(s))
         THEN IF Len(s) > 1 /\ IsWhitespace(s[2])
              THEN replaceWhitespaceRuns(Tail(s))
              ELSE <<"-">> \o replaceWhitespaceRuns(Tail(s))
         ELSE <<Head(s)>> \o replaceWhitespaceRuns(Tail(s))

\* the elements of an array
Elements(arr) == {arr[i] : i \in 1..Len(arr)}

\* Array.prototype.sort(cmp), the comparator given as the function cmp on
\* pairs of elements (a NaN result counts as 0, as SortCompare prescribes).
\* The sort is stable: each element is inserted after the last element of the
\* sorted prefix that it is not strictly smaller than.
insertSorted(sorted, x, cmp) ==
    LET notBefore == {j \in 1..Len(sorted) : cmp[<<x, sorted[j]>>] >= 0}
        p == IF notBefore = {} THEN 0
             ELSE CHOOSE j \in notBefore : \A k \in notBefore : k <= j
    IN SubSeq(sorted, 1, p) \o <<x>> \o SubSeq(sorted, p + 1, Len(sorted))

\* (the array, the comparator and each sorted prefix are bound to their
\* values once, before the insertions read them)
sortSeq(arr, cmp) ==
    LET sortOf(a, c) ==
            LET F[i \in 0..Len(a)] ==
                    IF i = 0 THEN <<>>
                    ELSE CHOOSE r \in {insertSorted(prefix, a[i], c) : prefix \in {F[i - 1]}} : TRUE
            IN F[Len(a)]
    IN CHOOSE r \in {sortOf(a, c) : a \in {arr}, c \in {cmp}} : TRUE

\* Lexicographic comparison of two sequences of integers: -1, 0 or 1
RECURSIVE LexCmp(_, _)
LexCmp(x, y) ==
    IF x = <<>> THEN (IF y = <<>> THEN 0 ELSE -1)
    ELSE IF y = <<>> THEN 1
    ELSE IF Head(x) < Head(y) THEN -1
    ELSE IF Head(x) > Head(y) THEN 1
    ELSE LexCmp(Tail(x), Tail(y))

\* Collation weights of the characters the model uses: whitespace and
\* punctuation sort before letters, letters by the alphabet (primary weight),
\* and a lower-case letter before its upper-case form (tertiary weight).
PrimaryWeight(c) ==
    LET l == LowerChar(c)
    IN CASE l = " " -> 0
         [] l = "-" -> 1
         [] l = "," -> 2
         [] l = "a" -> 3
         [] l = "b" -> 4
         [] l = "c" -> 5
         [] l = "m" -> 6
         [] l = "p" -> 7
         [] l = "z" -> 8
         [] OTHER -> 9

TertiaryWeight(c) == IF LowerChar(c) = c THEN 0 ELSE 1

\* String.prototype.localeCompare
localeCompare(a, b) ==
    LET prim == LexCmp([i \in 1..Len(a) |-> PrimaryWeight(a[i])],
                       [i \in 1..Len(b) |-> PrimaryWeight(b[i])])
    IN IF prim # 0 THEN prim
       ELSE LexCmp([i \in 1..Len(a) |-> TertiaryWeight(a[i])],
                   [i \in 1..Len(b) |-> TertiaryWeight(b[i])])

----------------------------------------------------------------------------
(***************************************************************************)
(* Assets (AssetIP).  A date field is [kind, ms]: kind "absent" (undefined *)
(* or empty), "invalid" (a string Date.parse does not understand) or       *)
(* "valid" with its epoch time ms.  tokenId is [kind, n]: "absent", "num"  *)
(* (a number or a numeric string) or "text" (a string that denotes no      *)
(* number).  id is the number its string denotes.                          *)
(***************************************************************************)
NoDate == [kind |-> "absent", ms |-> 0]
BadDate == [kind |-> "invalid", ms |-> 0]
DateAt(t) == [kind |-> "valid", ms |-> t]
NoToken == [kind |-> "absent", n |-> 0]
Token(k) == [kind |-> "num", n |-> k]
TextToken == [kind |-> "text", n |-> 0]

\* JavaScript numbers: NaN and the finite numbers
NaN == [nan |-> TRUE, n |-> 0]
Num(k) == [nan |-> FALSE, n |-> k]

\* Date.parse(d) is not NaN
Parsable(d) == d.kind = "valid"

\* d && !isNaN(Date.parse(d))
TruthyParsable(d) == d.kind # "absent" /\ Parsable(d)

\* a.registrationDate, else a.timestamp, else 0
EffectiveTime(a) ==
    IF TruthyParsable(a.registrationDate) THEN a.registrationDate.ms
    ELSE IF TruthyParsable(a.timestamp) THEN a.timestamp.ms
    ELSE 0

\* Number(a.tokenId ?? a.id ?? 0): NaN for a string that denotes no number
NumericId(a) ==
    CASE a.tokenId.kind = "absent" -> Num(a.id)
      [] a.tokenId.kind = "num" -> Num(a.tokenId.n)
      [] OTHER -> NaN

\* sortAssetsDesc(a, b); bId - aId is NaN when either is, and sort reads a
\* NaN result as 0
sortAssetsDesc(a, b) ==
    LET aTime == EffectiveTime(a)
        bTime == EffectiveTime(b)
        aId == NumericId(a)
        bId == NumericId(b)
    IN IF bTime # aTime THEN bTime - aTime
       ELSE IF aId.nan \/ bId.nan THEN 0
       ELSE bId.n - aId.n

\* new Date(y).getTime() - new Date(x).getTime(), NaN read as 0 by sort
DateDiff(y, x) == IF Parsable(y) /\ Parsable(x) THEN y.ms - x.ms ELSE 0

sTitles == << <<"Z", "a", "p">>, <<"c", "a", "b">>, <<"C", "a", "b">>, <<"M", "a", "p">> >>
sTypes == << <<"A", "r", "t">>, <<"m", "a", "p">>, <<"P", "o", "p">> >>
sLicenses == << <<"C", "a", " ", " ", "B", "a">>, <<"M", "a", "p">> >>
sTags == << <<"a", "b", ",", "P", "o", "p">>, <<"z", "a", "p">>, <<"c", "a", "b">> >>
sNames == << <<"a", "m", "a">>, <<"B", "o", "b">> >>

Pick(strs, i) == strs[(i % Len(strs)) + 1]

\* the i-th asset of the generated collection
GenAsset(i) ==
    [id |-> i,
     tokenId |-> IF i % 5 = 0 THEN NoToken ELSE Token(100 - i),
     title |-> Pick(sTitles, i),
     description |-> <<"p", "a", "c">>,
     type |-> Pick(sTypes, i),
     tags |-> IF i % 5 = 0 THEN <<"m", "a", "c">> ELSE Pick(sTags, i),
     licenseType |-> Pick(sLicenses, i),
     creator |-> [name |-> Pick(sNames, i), verified |-> (i % 2 = 1)],
     registrationDate |-> IF i % 7 = 0 THEN NoDate
                          ELSE IF i % 11 = 0 THEN BadDate
                          ELSE DateAt(i \div 3),
     timestamp |-> IF i % 6 = 0 THEN NoDate ELSE DateAt(i % 4)]

\* what the collection service may return: nothing, a few assets, BigLen
\* assets; none in timeline order
SmallResult == <<GenAsset(7), GenAsset(3), GenAsset(42), GenAsset(4), GenAsset(5)>>
BigResult == [i \in 1..BigLen |-> GenAsset(((i * 7) % BigLen) + 1)]
FetchResults == {<<>>, SmallResult, BigResult}

\* assets that differ in the fields the comparator reads
SortAsset(i, token, registered, stamped) ==
    [GenAsset(i) EXCEPT !.tokenId = token, !.registrationDate = registered,
                        !.timestamp = stamped]

SortAssets ==
    { SortAsset(1, Token(5), DateAt(2), NoDate),
      SortAsset(2, Token(3), NoDate, DateAt(2)),
      SortAsset(3, TextToken, DateAt(2), DateAt(9)),
      SortAsset(4, NoToken, BadDate, BadDate),
      SortAsset(5, NoToken, BadDate, DateAt(7)),
      SortAsset(6, Token(5), DateAt(2), DateAt(1)) }

\* every answer of at most MaxSortLen of them
SortInputs == UNION {[1..n -> SortAssets] : n \in 0..MaxSortLen}

\* what the collection service may throw: with a message, with an empty
\* message, without a message
Failures == {[message |-> <<"network down">>], [message |-> <<"">>], [message |-> <<>>]}

----------------------------------------------------------------------------
(***************************************************************************)
(* Filter configuration (FilterState).                                     *)
(***************************************************************************)
defaultFilters ==
    [search |-> <<>>,
     assetTypes |-> <<>>,
     licenses |-> <<>>,
     verifiedOnly |-> FALSE,
     dateRange |-> "all",
     sortBy |-> "recent",
     tags |-> <<>>,
     priceRange |-> <<0, 100>>]

\* configurations the filter drawer hands to setFilters
FilterChoices ==
    { [defaultFilters EXCEPT !.search = <<"C", "A", "B">>],
      [defaultFilters EXCEPT !.dateRange = "week", !.priceRange = <<10, 50>>],
      [defaultFilters EXCEPT !.assetTypes = << <<"a", "r", "t">>, <<"p", "o", "p">> >>,
                             !.verifiedOnly = TRUE],
      [defaultFilters EXCEPT !.licenses = << <<"c", "a">>, <<"z">> >>,
                             !.sortBy = "alphabetical"],
      [defaultFilters EXCEPT !.tags = << <<"P", "O", "P">>, <<"z", "a", "p">> >>,
                             !.sortBy = "popular"],
      [defaultFilters EXCEPT !.search = <<"m", "a">>, !.sortBy = "trending"],
      [defaultFilters EXCEPT !.sortBy = "oldest"] }

\* arguments of removeFilter
RemoveTypes == {"search", "assetType", "license", "verified", "tag", "price"}
RemoveValues == { <<"a", "r", "t">>, <<"c", "a">>, <<"P", "O", "P">> }

\* the configuration {search: "cat", tags: ["art", "photo"]}
CatFilters ==
    [defaultFilters EXCEPT !.search = <<"c", "a", "t">>,
                           !.tags = << <<"a", "r", "t">>, <<"p", "h", "o", "t", "o">> >>]

\* values of the fields of a configuration
Searches == { <<>>, <<"C", "A", "B">>, <<"p", "o", "p">> }
TypeSelections == { <<>>, << <<"a", "r", "t">>, <<"p", "o", "p">> >>,
                    << <<"a", "r", "t">>, <<"p", "o", "p">>, <<"a", "r", "t">> >> }
LicenseSelections == { <<>>, << <<"c", "a">>, <<"z">> >>,
                       << <<"c", "a", "-", "b", "a", "-", "b", "a">> >> }
DateRanges == {"all", "week"}
SortModes == {"recent", "alphabetical", "popular", "trending", "oldest"}
TagSelections == { <<>>, << <<"P", "O", "P">>, <<"z", "a", "p">> >> }
PriceRanges == { <<0, 100>>, <<10, 50>> }

\* configurations the engine is examined on
FilterInputs ==
    {CatFilters} \cup
    [search : Searches, assetTypes : TypeSelections, licenses : LicenseSelections,
     verifiedOnly : BOOLEAN, dateRange : DateRanges, sortBy : SortModes,
     tags : TagSelections, priceRange : PriceRanges]

\* the callback of the search filter
bySearch(asset, f) ==
    \/ includes(toLowerCase(asset.title), toLowerCase(f.search))
    \/ includes(toLowerCase(asset.description), toLowerCase(f.search))
    \/ includes(toLowerCase(asset.creator.name), toLowerCase(f.search))
    \/ includes(toLowerCase(asset.tags), toLowerCase(f.search))

\* the callback of the asset type filter
byType(asset, f) == arrayIncludes(f.assetTypes, toLowerCase(asset.type))

\* the callback of the license filter
byLicense(asset, f) ==
    LET assetLicense == replaceWhitespaceRuns(toLowerCase(asset.licenseType))
    IN \E k \in 1..Len(f.licenses) :
          \/ includes(assetLicense, f.licenses[k])
          \/ includes(f.licenses[k], assetLicense)

\* the callback of the verified creators filter
byVerified(asset, f) == asset.creator.verified

\* a tags filter that wants every selected tag
byTags_EverySelectedTag(asset, f) ==
    \A k \in 1..Len(f.tags) :
        includes(toLowerCase(asset.tags), toLowerCase(f.tags[k]))

\* the callback of the tags filter
byTags(asset, f) ==
    \E k \in 1..Len(f.tags) :
        includes(toLowerCase(asset.tags), toLowerCase(f.tags[k]))

\* a narrowing that also reads dateRange: anything but "all" keeps the
\* assets registered at or after time 3
narrowed_ByDateRange(assets, f) ==
    LET search(asset) == bySearch(asset, f)
        type(asset) == byType(asset, f)
        license(asset) == byLicense(asset, f)
        verified(asset) == byVerified(asset, f)
        tags(asset) == byTags(asset, f)
        dated(asset) == Parsable(asset.registrationDate) /\ asset.registrationDate.ms >= 3
        f1 == IF f.search # <<>> THEN SelectSeq(assets, search) ELSE assets
        f2 == IF Len(f.assetTypes) > 0 THEN SelectSeq(f1, type) ELSE f1
        f3 == IF Len(f.licenses) > 0 THEN SelectSeq(f2, license) ELSE f2
        f4 == IF f.verifiedOnly THEN SelectSeq(f3, verified) ELSE f3
        f5 == IF Len(f.tags) > 0 THEN SelectSeq(f4, tags) ELSE f4
    IN IF f.dateRange # "all" THEN SelectSeq(f5, dated) ELSE f5

\* the filter stages of filteredAssets: `filtered` when the switch is reached
narrowed(assets, f) ==
    LET search(asset) == bySearch(asset, f)
        type(asset) == byType(asset, f)
        license(asset) == byLicense(asset, f)
        verified(asset) == byVerified(asset, f)
        tags(asset) == byTags(asset, f)
        f1 == IF f.search # <<>> THEN SelectSeq(assets, search) ELSE assets
        f2 == IF Len(f.assetTypes) > 0 THEN SelectSeq(f1, type) ELSE f1
        f3 == IF Len(f.licenses) > 0 THEN SelectSeq(f2, license) ELSE f2
        f4 == IF f.verifiedOnly THEN SelectSeq(f3, verified) ELSE f3
    IN IF Len(f.tags) > 0 THEN SelectSeq(f4, tags) ELSE f4

\* a switch whose default case sorts by title
sorted_DefaultByTitle(filtered, sortBy) ==
    LET pairs == Elements(filtered) \X Elements(filtered)
        byTitle == [ab \in pairs |-> localeCompare(ab[1].title, ab[2].title)]
        byTimestamp == [ab \in pairs |-> DateDiff(ab[2].timestamp, ab[1].timestamp)]
        byRegistration ==
            [ab \in pairs |-> DateDiff(ab[2].registrationDate, ab[1].registrationDate)]
    IN CASE sortBy = "alphabetical" -> sortSeq(filtered, byTitle)
         [] sortBy = "popular" -> sortSeq(filtered, byTimestamp)
         [] sortBy = "trending" -> sortSeq(filtered, byRegistration)
         [] OTHER -> sortSeq(filtered, byTitle)

\* the switch on filters.sortBy
sorted(filtered, sortBy) ==
    LET pairs == Elements(filtered) \X Elements(filtered)
        byTitle == [ab \in pairs |-> localeCompare(ab[1].title, ab[2].title)]
        byTimestamp == [ab \in pairs |-> DateDiff(ab[2].timestamp, ab[1].timestamp)]
        byRegistration ==
            [ab \in pairs |-> DateDiff(ab[2].registrationDate, ab[1].registrationDate)]
    IN CASE sortBy = "alphabetical" -> sortSeq(filtered, byTitle)
         [] sortBy = "popular" -> sortSeq(filtered, byTimestamp)
         [] sortBy = "trending" -> sortSeq(filtered, byRegistration)
         [] OTHER -> filtered

\* the useMemo of filteredAssets, as a function of its dependencies
FilteredAssets(assets, f) == sorted(narrowed(assets, f), f.sortBy)

\* a pager that shows the current page only
PaginatedAssets_CurrentPageOnly(filtered, page) ==
    slice(filtered, (page - 1) * ASSETS_PER_PAGE, page * ASSETS_PER_PAGE)

\* the useMemo of paginatedAssets, as a function of its dependencies
PaginatedAssets(filtered, page) == slice(filtered, 0, page * ASSETS_PER_PAGE)

\* JavaScript values of the three types the entries of the array have
JsString(str) == [type |-> "string", s |-> str, n |-> 0, b |-> FALSE]
JsNumber(k) == [type |-> "number", s |-> <<>>, n |-> k, b |-> FALSE]
JsBoolean(v) == [type |-> "boolean", s |-> <<>>, n |-> 0, b |-> v]

\* Boolean(v): the empty string, 0 and false are falsy
Boolean(v) ==
    CASE v.type = "string" -> v.s # <<>>
      [] v.type = "number" -> v.n # 0
      [] OTHER -> v.b

\* v && 1
AndOne(v) == IF Boolean(v) THEN JsNumber(1) ELSE v

\* arr.reduce((a, b) => a + b, 0) over an array of numbers
reduceSum(arr) ==
    LET acc[i \in 0..Len(arr)] == IF i = 0 THEN 0 ELSE acc[i - 1] + arr[i].n
    IN acc[Len(arr)]

\* a count in which the selected tags weigh 1 together
ActiveFilterCount_TagsCountOnce(f) ==
    reduceSum(SelectSeq(<< AndOne(JsString(f.search)),
                           JsNumber(Len(f.assetTypes)),
                           JsNumber(Len(f.licenses)),
                           AndOne(JsBoolean(f.verifiedOnly)),
                           AndOne(JsBoolean(f.dateRange # "all")),
                           AndOne(JsBoolean(f.sortBy # "recent")),
                           AndOne(JsNumber(Len(f.tags))) >>, Boolean))

\* the useMemo of activeFilterCount: the truthy entries of the array, summed
ActiveFilterCount(f) ==
    reduceSum(SelectSeq(<< AndOne(JsString(f.search)),
                           JsNumber(Len(f.assetTypes)),
                           JsNumber(Len(f.licenses)),
                           AndOne(JsBoolean(f.verifiedOnly)),
                           AndOne(JsBoolean(f.dateRange # "all")),
                           AndOne(JsBoolean(f.sortBy # "recent")),
                           JsNumber(Len(f.tags)) >>, Boolean))

----------------------------------------------------------------------------
(***************************************************************************)
(* State.                                                                  *)
(***************************************************************************)
VARIABLES
    mounted,        \* the mount effects have run
    allAssets,      \* usePublicTimeline: useState<AssetIP[]>([])
    isLoading,      \* usePublicTimeline: useState(false)
    error,          \* usePublicTimeline: useState<string | null>(null)
    fetchedRef,     \* usePublicTimeline: useRef(false)
    pending,        \* calls of getCollectionAssets not yet settled
    filters,        \* Timeline: useState<FilterState>(defaultFilters)
    filtersIsDefaultObject, \* filters is the very object defaultFilters
    currentPage,    \* Timeline: useState(1)
    isPaging,       \* Timeline: useState(false)
    hasMore,        \* Timeline: useState(true)
    advances,       \* loadMore calls awaiting their timer, oldest first,
                    \* each with the values its closure captured
    lastOp          \* history: the step taken last, with the service's answer
                    \* or failure (fetch steps) and whether the configuration
                    \* changed by value (filter steps)

loaderVars == <<allAssets, isLoading, error, fetchedRef, pending>>
engineVars == <<filters, filtersIsDefaultObject, currentPage, isPaging, hasMore, advances>>
vars == <<mounted, allAssets, isLoading, error, fetchedRef, pending, filters,
          filtersIsDefaultObject, currentPage, isPaging, hasMore, advances, lastOp>>

Op(name) ==
    [op |-> name, changed |-> FALSE, answer |-> <<>>, failure |-> [message |-> <<>>]]

\* values derived at every render
filteredAssets == FilteredAssets(allAssets, filters)
paginatedAssets == PaginatedAssets(filteredAssets, currentPage)
activeFilterCount == ActiveFilterCount(filters)

Init ==
    /\ mounted = FALSE
    /\ allAssets = <<>>
    /\ isLoading = FALSE
    /\ error = <<>>
    /\ fetchedRef = FALSE
    /\ pending = 0
    /\ filters = defaultFilters
    /\ filtersIsDefaultObject = TRUE
    /\ currentPage = 1
    /\ isPaging = FALSE
    /\ hasMore = TRUE
    /\ advances = <<>>
    /\ lastOp = Op("init")

----------------------------------------------------------------------------
(***************************************************************************)
(* Timeline Feed Loader (usePublicTimeline).                               *)
(***************************************************************************)

\* loadCollectionOnce up to its await: returns at once when a fetch has
\* succeeded, otherwise raises isLoading, clears error and calls the service
LoadCollectionOnceStart ==
    IF fetchedRef
    THEN UNCHANGED loaderVars
    ELSE /\ pending < MaxPending
         /\ isLoading' = TRUE
         /\ error' = <<>>
         /\ pending' = pending + 1
         /\ UNCHANGED <<allAssets, fetchedRef>>

\* the effects of the first commit: loadCollectionOnce(), the scroll listener,
\* and the pagination reset (which writes the initial values again)
Mount ==
    /\ ~mounted
    /\ mounted' = TRUE
    /\ LoadCollectionOnceStart
    /\ currentPage' = 1
    /\ hasMore' = TRUE
    /\ lastOp' = Op("mount")
    /\ UNCHANGED <<filters, filtersIsDefaultObject, isPaging, advances>>

\* the consumer calls refetch, which is loadCollectionOnce
Refetch ==
    /\ mounted
    /\ LoadCollectionOnceStart
    /\ lastOp' = Op("refetch")
    /\ UNCHANGED <<mounted, engineVars>>

\* [...assets].sort(sortAssetsDesc)
SortedForTimeline(assets) ==
    sortSeq(assets, [ab \in Elements(assets) \X Elements(assets) |-> sortAssetsDesc(ab[1], ab[2])])

\* loadCollectionOnce after its await, the service having returned assets
FetchSuccess(assets) ==
    /\ pending > 0
    /\ pending' = pending - 1
    /\ allAssets' = SortedForTimeline(assets)
    /\ fetchedRef' = TRUE
    /\ isLoading' = FALSE
    /\ lastOp' = [Op("fetchSuccess") EXCEPT !.answer = assets]
    /\ UNCHANGED <<mounted, error, engineVars>>

\* e?.message ?? "Failed to load timeline"
ErrorMessage(e) == IF e.message # <<>> THEN e.message[1] ELSE "Failed to load timeline"

\* loadCollectionOnce after its await, the service having thrown e
FetchFailure(e) ==
    /\ pending > 0
    /\ pending' = pending - 1
    /\ error' = <<ErrorMessage(e)>>
    /\ allAssets' = <<>>
    /\ isLoading' = FALSE
    /\ lastOp' = [Op("fetchFailure") EXCEPT !.failure = e]
    /\ UNCHANGED <<mounted, fetchedRef, engineVars>>

----------------------------------------------------------------------------
(***************************************************************************)
(* Filter-Sort-Paginate Engine (Timeline).                                 *)
(***************************************************************************)

\* loadMore without the in-flight guard
LoadMoreStart_NoPagingGuard ==
    IF ~hasMore
    THEN /\ lastOp' = Op("loadMoreSkipped")
         /\ UNCHANGED <<isPaging, advances>>
    ELSE /\ Len(advances) < MaxAdvances
         /\ isPaging' = TRUE
         /\ advances' = Append(advances, [currentPage |-> currentPage,
                                          totalAvailable |-> Len(filteredAssets)])
         /\ lastOp' = Op("loadMoreStarted")

\* loadMore up to its await: a no-op when an advance is in flight or no more
\* pages remain, otherwise raises isPaging and starts the timer.  The part
\* after the await runs with the currentPage and filteredAssets.length of
\* the render this call was made in.
LoadMoreStart ==
    IF isPaging \/ ~hasMore
    THEN /\ lastOp' = Op("loadMoreSkipped")
         /\ UNCHANGED <<isPaging, advances>>
    ELSE /\ Len(advances) < MaxAdvances
         /\ isPaging' = TRUE
         /\ advances' = Append(advances, [currentPage |-> currentPage,
                                          totalAvailable |-> Len(filteredAssets)])
         /\ lastOp' = Op("loadMoreStarted")

\* positions of the bottom edge of the viewport (innerHeight + scrollTop) and
\* heights of the document (offsetHeight) a scroll event may report
ViewBottoms == {800, 2500}
DocHeights == {1500, 4000}

\* the scroll listener
HandleScroll(viewBottom, docHeight) ==
    /\ mounted
    /\ IF viewBottom >= docHeight - ScrollThreshold
       THEN LoadMoreStart
       ELSE /\ lastOp' = Op("scrollAway")
            /\ UNCHANGED <<isPaging, advances>>
    /\ UNCHANGED <<mounted, loaderVars, filters, filtersIsDefaultObject, currentPage, hasMore>>

\* loadMore returning right after setHasMore(false)
LoadMoreComplete_ReturnsEarly ==
    /\ advances # <<>>
    /\ LET closure == Head(advances)
           nextPage == closure.currentPage + 1
           totalAvailable == closure.totalAvailable
           nextPageAssets == totalAvailable - closure.currentPage * ASSETS_PER_PAGE
       IN IF nextPageAssets <= 0
          THEN hasMore' = FALSE /\ UNCHANGED <<currentPage, isPaging>>
          ELSE currentPage' = nextPage /\ isPaging' = FALSE /\ UNCHANGED hasMore
    /\ advances' = Tail(advances)
    /\ lastOp' = Op("loadMoreCompleted")
    /\ UNCHANGED <<mounted, loaderVars, filters, filtersIsDefaultObject>>

\* loadMore after its await: the timer of the oldest waiting call fires
LoadMoreComplete ==
    /\ advances # <<>>
    /\ LET closure == Head(advances)
           nextPage == closure.currentPage + 1
           totalAvailable == closure.totalAvailable
           nextPageAssets == totalAvailable - closure.currentPage * ASSETS_PER_PAGE
       IN IF nextPageAssets <= 0
          THEN hasMore' = FALSE /\ UNCHANGED currentPage
          ELSE currentPage' = nextPage /\ UNCHANGED hasMore
    /\ isPaging' = FALSE
    /\ advances' = Tail(advances)
    /\ lastOp' = Op("loadMoreCompleted")
    /\ UNCHANGED <<mounted, loaderVars, filters, filtersIsDefaultObject>>

\* a reset that forgets hasMore
ResetPagination_PageOnly ==
    /\ currentPage' = 1
    /\ UNCHANGED hasMore

\* the effect on [filters], run after every commit with a new filters object
ResetPagination ==
    /\ currentPage' = 1
    /\ hasMore' = TRUE

\* setFilters(f) with a fresh object f, as the filter drawer does
SetFilters(f) ==
    /\ mounted
    /\ filters' = f
    /\ filtersIsDefaultObject' = FALSE
    /\ ResetPagination
    /\ lastOp' = [Op("setFilters") EXCEPT !.changed = (filters' # filters)]
    /\ UNCHANGED <<mounted, loaderVars, isPaging, advances>>

\* clearFilters: setFilters(defaultFilters); React bails out, and runs no
\* effect, when the state already is that object
ClearFilters ==
    /\ mounted
    /\ IF filtersIsDefaultObject
       THEN UNCHANGED <<filters, filtersIsDefaultObject, currentPage, hasMore>>
       ELSE /\ filters' = defaultFilters
            /\ filtersIsDefaultObject' = TRUE
            /\ ResetPagination
    /\ lastOp' = [Op("clearFilters") EXCEPT !.changed = (filters' # filters)]
    /\ UNCHANGED <<mounted, loaderVars, isPaging, advances>>

\* arr.filter((t) => t !== value)
without(arr, value) == LET differs(t) == t # value IN SelectSeq(arr, differs)

\* an updater whose asset type case drops the whole selection
RemovedFrom_DropsSelection(prev, type, value) ==
    CASE type = "search" -> [prev EXCEPT !.search = <<>>]
      [] type = "assetType" -> [prev EXCEPT !.assetTypes = <<>>]
      [] type = "license" -> [prev EXCEPT !.licenses = without(prev.licenses, value)]
      [] type = "verified" -> [prev EXCEPT !.verifiedOnly = FALSE]
      [] type = "tag" -> [prev EXCEPT !.tags = without(prev.tags, value)]
      [] OTHER -> prev

\* the object removeFilter's updater builds from prev
RemovedFrom(prev, type, value) ==
    CASE type = "search" -> [prev EXCEPT !.search = <<>>]
      [] type = "assetType" -> [prev EXCEPT !.assetTypes = without(prev.assetTypes, value)]
      [] type = "license" -> [prev EXCEPT !.licenses = without(prev.licenses, value)]
      [] type = "verified" -> [prev EXCEPT !.verifiedOnly = FALSE]
      [] type = "tag" -> [prev EXCEPT !.tags = without(prev.tags, value)]
      [] OTHER -> prev

\* removeFilter(type, value): every known type sets a fresh object, an
\* unknown type sets nothing
RemoveFilter(type, value) ==
    /\ mounted
    /\ IF type \in {"search", "assetType", "license", "verified", "tag"}
       THEN /\ filters' = RemovedFrom(filters, type, value)
            /\ filtersIsDefaultObject' = FALSE
            /\ ResetPagination
       ELSE UNCHANGED <<filters, filtersIsDefaultObject, currentPage, hasMore>>
    /\ lastOp' = [Op("removeFilter") EXCEPT !.changed = (filters' # filters)]
    /\ UNCHANGED <<mounted, loaderVars, isPaging, advances>>

----------------------------------------------------------------------------
Next ==
    \/ Mount
    \/ Refetch
    \/ \E assets \in FetchResults : FetchSuccess(assets)
    \/ \E e \in Failures : FetchFailure(e)
    \/ \E viewBottom \in ViewBottoms, docHeight \in DocHeights : HandleScroll(viewBottom, docHeight)
    \/ LoadMoreComplete
    \/ \E f \in FilterChoices : SetFilters(f)
    \/ ClearFilters
    \/ \E type \in RemoveTypes, value \in RemoveValues : RemoveFilter(type, value)

Spec == Init /\ [][Next]_vars

\* a timer that was set fires: setTimeout(resolve, 400) always resolves
FairSpec == Spec /\ WF_vars(LoadMoreComplete)

\* a scroll event within ScrollThreshold of the bottom
NearScroll ==
    \E viewBottom \in ViewBottoms, docHeight \in DocHeights :
        /\ viewBottom >= docHeight - ScrollThreshold
        /\ HandleScroll(viewBottom, docHeight)

\* the filter handlers, while the collection has not been published
SetFiltersBeforePublication(f) == ~fetchedRef /\ SetFilters(f)
ClearFiltersBeforePublication == ~fetchedRef /\ ClearFilters
RemoveFilterBeforePublication(type, value) == ~fetchedRef /\ RemoveFilter(type, value)

\* the one fetch of the mount succeeds, the filter configuration changes
\* only before the assets are published, scroll events come at any time
QuietNext ==
    \/ Mount
    \/ \E assets \in FetchResults : FetchSuccess(assets)
    \/ \E viewBottom \in ViewBottoms, docHeight \in DocHeights : HandleScroll(viewBottom, docHeight)
    \/ LoadMoreComplete
    \/ \E f \in FilterChoices : SetFiltersBeforePublication(f)
    \/ ClearFiltersBeforePublication
    \/ \E type \in RemoveTypes, value \in RemoveValues : RemoveFilterBeforePublication(type, value)

\* the service answers, timers fire, and scroll events near the bottom keep
\* coming
QuietFairSpec ==
    /\ Init
    /\ [][QuietNext]_vars
    /\ WF_vars(\E assets \in FetchResults : FetchSuccess(assets))
    /\ WF_vars(LoadMoreComplete)
    /\ WF_vars(NearScroll)

\* the engine over a published collection, for every configuration: the
\* collection has been fetched and the drawer has set the configuration
FilterInit ==
    /\ mounted = TRUE
    /\ allAssets \in {SortedForTimeline(assets) : assets \in FetchResults}
    /\ isLoading = FALSE
    /\ error = <<>>
    /\ fetchedRef = TRUE
    /\ pending = 0
    /\ filters \in FilterInputs
    /\ filtersIsDefaultObject = FALSE
    /\ currentPage = 1
    /\ isPaging = FALSE
    /\ hasMore = TRUE
    /\ advances = <<>>
    /\ lastOp = Op("setFilters")

FilterNext ==
    \/ \E type \in RemoveTypes, value \in RemoveValues : RemoveFilter(type, value)
    \/ ClearFilters

FilterSpec == FilterInit /\ [][FilterNext]_vars

\* the loader, the service answering with any list of SortInputs
SortNext ==
    \/ Mount
    \/ \E assets \in SortInputs : FetchSuccess(assets)

SortSpec == Init /\ [][SortNext]_vars

----------------------------------------------------------------------------
(***************************************************************************)
(* Properties of the pagination cursor.                                    *)
(***************************************************************************)

\* C1: at most one loadMore call awaits its timer at any time, and a scroll
\* event that arrives while one does changes neither the cursor nor the
\* loader: it starts no second advance, so the burst ends in the single
\* completion of the advance already in flight.
C1_SingleAdvanceInFlight ==
    [][/\ Len(advances') <= 1
       /\ (advances # <<>> /\ lastOp'.op \in {"loadMoreSkipped", "loadMoreStarted", "scrollAway"})
            => /\ lastOp'.op # "loadMoreStarted"
               /\ UNCHANGED <<engineVars, loaderVars>>]_vars

\* a scroll event near the bottom has just been dropped while an advance
\* was waiting
C1_Witness ==
    /\ lastOp.op = "loadMoreSkipped"
    /\ isPaging
    /\ hasMore
    /\ Len(advances) = 1

\* C2: after every step that changed the filter configuration (setFilters
\* from the drawer, clearFilters or removeFilter, in whatever field and
\* whatever the filtered result) currentPage = 1 and hasMore = TRUE, hence at
\* most ASSETS_PER_PAGE items are visible.
C2_FilterChangeResetsCursor ==
    (lastOp.op \in {"setFilters", "clearFilters", "removeFilter"} /\ lastOp.changed)
        => /\ currentPage = 1
           /\ hasMore = TRUE
           /\ Len(paginatedAssets) <= ASSETS_PER_PAGE

\* removeFilter has just changed the configuration after the cursor had
\* reached page 2 (the advance started on page 2 is still waiting) and had
\* more than one page to show; the cursor is back on page 1
C2_Witness ==
    /\ lastOp.op = "removeFilter"
    /\ lastOp.changed
    /\ advances # <<>>
    /\ Head(advances).currentPage = 2
    /\ currentPage = 1
    /\ hasMore
    /\ Len(filteredAssets) > ASSETS_PER_PAGE
    /\ Len(paginatedAssets) = ASSETS_PER_PAGE

\* C3: the visible list has min(currentPage * ASSETS_PER_PAGE, filtered
\* count) items and is the prefix of that length of the filtered and sorted
\* list.
C3_VisibleIsCappedPrefix ==
    LET filtered == filteredAssets
        visible == PaginatedAssets(filtered, currentPage)
    IN /\ Len(visible) = Min(currentPage * ASSETS_PER_PAGE, Len(filtered))
       /\ visible = SubSeq(filtered, 1, Len(visible))

\* the cap applies: the third page is shorter than a page
C3_Witness ==
    /\ currentPage = 3
    /\ Len(filteredAssets) = BigLen
    /\ Len(paginatedAssets) = BigLen
    /\ paginatedAssets = filteredAssets

\* C4: a completing advance that finds the cursor on page p over n filtered
\* items moves it to p + 1 exactly when p * ASSETS_PER_PAGE < n, and
\* otherwise sets hasMore to FALSE and leaves the page alone.
C4_AdvanceDecidesOnCurrentCursor ==
    [][lastOp'.op = "loadMoreCompleted"
         => LET p == currentPage
                n == Len(filteredAssets)
            IN /\ (currentPage' = p + 1) <=> (p * ASSETS_PER_PAGE < n)
               /\ ~(p * ASSETS_PER_PAGE < n) => (hasMore' = FALSE /\ currentPage' = p)]_vars

----------------------------------------------------------------------------
(***************************************************************************)
(* Properties of the loader.                                               *)
(***************************************************************************)

\* C5: at most one call of the collection service is unsettled at any time:
\* a loadCollectionOnce made while one is pending issues no second request.
C5_SingleFetchInFlight == pending <= 1

\* C6: right after a fetch has succeeded, allAssets is the service's answer
\* sorted by sortAssetsDesc, error is null and fetchedRef is set.
C6_SuccessPublishesSortedAndClearsError ==
    lastOp.op = "fetchSuccess"
        => /\ allAssets = SortedForTimeline(lastOp.answer)
           /\ error = <<>>
           /\ fetchedRef = TRUE

\* C7: right after a fetch has failed, allAssets is empty, error is the
\* message of the failure (the default message when it has none) and
\* fetchedRef is still unset.
C7_FailureClearsListAndKeepsFlagUnset ==
    lastOp.op = "fetchFailure"
        => /\ allAssets = <<>>
           /\ error = <<ErrorMessage(lastOp.failure)>>
           /\ fetchedRef = FALSE

\* C8: a refetch called while error is non-null and no request is pending
\* issues a new request.
C8_RefetchAfterErrorIssuesRequest ==
    [][(lastOp'.op = "refetch" /\ error # <<>> /\ pending = 0)
         => (pending' = 1 /\ isLoading' = TRUE /\ error' = <<>>)]_vars

\* C9: isLoading is TRUE in exactly the states in which a request is pending.
C9_LoadingIffFetchPending == isLoading <=> (pending > 0)

\* C10: once a fetch has succeeded, the published list never changes, and an
\* activation or refetch issues no request and changes no loader state.
C10_PublishedListIsFrozen ==
    [][fetchedRef
         => /\ allAssets' = allAssets
            /\ lastOp'.op \in {"mount", "refetch"} => UNCHANGED loaderVars]_vars

----------------------------------------------------------------------------
(***************************************************************************)
(* Properties of the filter configuration and of the filtered list.        *)
(***************************************************************************)

\* result holds the entries of arr at the positions kept, in their order
KeptInOrder(result, arr, kept) ==
    /\ Len(result) = Cardinality(kept)
    /\ \A i \in kept : result[Cardinality({j \in kept : j <= i})] = arr[i]

\* the field of the configuration a removal of the given type is about
OwnField(type) ==
    CASE type = "search" -> "search"
      [] type = "assetType" -> "assetTypes"
      [] type = "license" -> "licenses"
      [] type = "verified" -> "verifiedOnly"
      [] type = "tag" -> "tags"
      [] OTHER -> "none"

\* C11: removeFilter(type, value) leaves every field but its own unchanged;
\* it sets search to the empty string, verifiedOnly to FALSE, and takes out
\* of assetTypes, licenses or tags the entries equal to value, keeping the
\* others in order.
C11_RemovalTouchesOnlyItsField ==
    [][\A type \in RemoveTypes, value \in RemoveValues :
          RemoveFilter(type, value)
            => LET own == OwnField(type)
               IN /\ \A g \in (DOMAIN filters) \ {own} : filters'[g] = filters[g]
                  /\ own = "search" => filters'.search = <<>>
                  /\ own = "verifiedOnly" => filters'.verifiedOnly = FALSE
                  /\ own \in {"assetTypes", "licenses", "tags"}
                       => KeptInOrder(filters'[own], filters[own],
                                      {i \in 1..Len(filters[own]) : filters[own][i] # value})]_vars

\* one asset type has just been removed from a selection of several while
\* every other field was set
C11_Witness ==
    /\ lastOp.op = "removeFilter"
    /\ lastOp.changed
    /\ filters.assetTypes = << <<"p", "o", "p">> >>
    /\ filters.search # <<>>
    /\ Len(filters.licenses) = 2
    /\ Len(filters.tags) = 2
    /\ filters.verifiedOnly
    /\ filters.sortBy = "trending"

\* C12: activeFilterCount is (1 if search is non-empty) + |assetTypes| +
\* |licenses| + (1 if verifiedOnly) + (1 if dateRange is not "all") + (1 if
\* sortBy is not "recent") + |tags|, whatever priceRange is; it is 0 for the
\* default configuration and 3 for {search: "cat", tags: ["art", "photo"]}.
C12_ActiveFilterCountIsSum ==
    /\ activeFilterCount =
           (IF filters.search # <<>> THEN 1 ELSE 0)
           + Len(filters.assetTypes)
           + Len(filters.licenses)
           + (IF filters.verifiedOnly THEN 1 ELSE 0)
           + (IF filters.dateRange # "all" THEN 1 ELSE 0)
           + (IF filters.sortBy # "recent" THEN 1 ELSE 0)
           + Len(filters.tags)
    /\ \A p \in PriceRanges :
           ActiveFilterCount([filters EXCEPT !.priceRange = p]) = activeFilterCount
    /\ filters = defaultFilters => activeFilterCount = 0
    /\ filters = CatFilters => activeFilterCount = 3

\* the configuration {search: "cat", tags: ["art", "photo"]} counts 3
C12_Witness ==
    /\ filters = CatFilters
    /\ activeFilterCount = 3

\* asset satisfies every active field of the configuration f
Passes(asset, f) ==
    LET has(s, sub) == includes(toLowerCase(s), toLowerCase(sub))
        slug == replaceWhitespaceRuns(toLowerCase(asset.licenseType))
    IN /\ f.search # <<>>
            => \/ has(asset.title, f.search)
               \/ has(asset.description, f.search)
               \/ has(asset.creator.name, f.search)
               \/ has(asset.tags, f.search)
       /\ f.assetTypes # <<>>
            => \E t \in Elements(f.assetTypes) : t = toLowerCase(asset.type)
       /\ f.licenses # <<>>
            => \E l \in Elements(f.licenses) : includes(slug, l) \/ includes(l, slug)
       /\ f.verifiedOnly => asset.creator.verified
       /\ f.tags # <<>>
            => \E t \in Elements(f.tags) : has(asset.tags, t)

\* positions of allAssets whose asset passes the configuration
PassingPositions == {i \in 1..Len(allAssets) : Passes(allAssets[i], filters)}

\* C13: the filtered list holds exactly the assets of the input list that
\* satisfy every active field (any one of the selected values of a field
\* suffices, an empty or FALSE field asks nothing), each as often as the
\* input does; with no field active it holds the whole input.
C13_FilteredIsConjunctionOfFields ==
    /\ Elements(filteredAssets) = {allAssets[i] : i \in PassingPositions}
    /\ Len(filteredAssets) = Cardinality(PassingPositions)
    /\ (/\ filters.search = <<>>
        /\ filters.assetTypes = <<>>
        /\ filters.licenses = <<>>
        /\ ~filters.verifiedOnly
        /\ filters.tags = <<>>)
         => Elements(filteredAssets) = Elements(allAssets) /\ Len(filteredAssets) = Len(allAssets)
    /\ filters = defaultFilters => filteredAssets = allAssets

\* four fields are active, three of them with several selected values, and
\* some but not all assets pass
C13_Witness ==
    /\ filters.search # <<>>
    /\ Len(filters.assetTypes) > 1
    /\ Len(filters.licenses) > 1
    /\ Len(filters.tags) > 1
    /\ Len(filteredAssets) > 0
    /\ Len(filteredAssets) < Len(allAssets)

\* C14: configurations that differ only in dateRange and priceRange give the
\* same filtered list in the same order.
C14_DateAndPriceRangeHaveNoEffect ==
    \A d \in DateRanges, p \in PriceRanges :
        FilteredAssets(allAssets, [filters EXCEPT !.dateRange = d, !.priceRange = p])
            = filteredAssets

\* dateRange and priceRange are both set away from their defaults over a
\* list that holds assets registered before and after time 3
C14_Witness ==
    /\ filters.dateRange = "week"
    /\ filters.priceRange = <<10, 50>>
    /\ \E i, j \in 1..Len(filteredAssets) :
          /\ Parsable(filteredAssets[i].registrationDate)
          /\ filteredAssets[i].registrationDate.ms < 3
          /\ Parsable(filteredAssets[j].registrationDate)
          /\ filteredAssets[j].registrationDate.ms >= 3

\* C15: when sortBy is "recent" or a mode the switch does not know, the
\* filtered list is the assets of allAssets that pass, in the order they
\* have in allAssets.
C15_RecentKeepsIncomingOrder ==
    filters.sortBy \notin {"alphabetical", "popular", "trending"}
        => KeptInOrder(filteredAssets, allAssets, PassingPositions)

\* an unknown sort mode over a narrowed list whose titles are not in
\* alphabetical order
C15_Witness ==
    /\ filters.sortBy = "oldest"
    /\ filters.search # <<>>
    /\ Len(filteredAssets) < Len(allAssets)
    /\ \E i \in 1..(Len(filteredAssets) - 1) :
          localeCompare(filteredAssets[i].title, filteredAssets[i + 1].title) > 0

----------------------------------------------------------------------------
(***************************************************************************)
(* Properties of the timeline order.                                       *)
(***************************************************************************)

\* -1, 0 or 1
Sign(x) == IF x < 0 THEN -1 ELSE IF x > 0 THEN 1 ELSE 0

\* a goes before b, or ties with it, in the order by effective time
\* descending, then numeric identifier descending; an identifier that is
\* no number constrains nothing
InTimelineOrder(a, b) ==
    \/ EffectiveTime(a) > EffectiveTime(b)
    \/ /\ EffectiveTime(a) = EffectiveTime(b)
       /\ \/ NumericId(a).nan
          \/ NumericId(b).nan
          \/ NumericId(a).n >= NumericId(b).n

\* C16: sortAssetsDesc orders by effective time descending, then by numeric
\* identifier descending: over the assets of every answer it is
\* antisymmetric in sign, transitive, and 0 only when both keys are equal,
\* so the published list is the answer rearranged into that order.
C16_TimelineComparatorIsTotalPreorder ==
    lastOp.op = "fetchSuccess"
        => LET S == Elements(lastOp.answer)
           IN /\ \A a, b \in S : Sign(sortAssetsDesc(a, b)) = -Sign(sortAssetsDesc(b, a))
              /\ \A a, b, c \in S :
                    (sortAssetsDesc(a, b) <= 0 /\ sortAssetsDesc(b, c) <= 0)
                        => sortAssetsDesc(a, c) <= 0
              /\ \A a, b \in S :
                    sortAssetsDesc(a, b) = 0
                        => /\ EffectiveTime(a) = EffectiveTime(b)
                           /\ NumericId(a) = NumericId(b)
              /\ \A a \in S :
                    Cardinality({i \in 1..Len(allAssets) : allAssets[i] = a})
                        = Cardinality({i \in 1..Len(lastOp.answer) : lastOp.answer[i] = a})
              /\ Len(allAssets) = Len(lastOp.answer)
              /\ \A i, j \in 1..Len(allAssets) :
                    i < j => InTimelineOrder(allAssets[i], allAssets[j])

----------------------------------------------------------------------------
(***************************************************************************)
(* Behaviour of the cursor over time.                                      *)
(***************************************************************************)

\* every item of the filtered list is visible
AllVisible == currentPage * ASSETS_PER_PAGE >= Len(filteredAssets)

\* C17: an advance that has started completes and clears isPaging, whether
\* it moved the page or set hasMore to FALSE: isPaging never stays TRUE
\* forever once the timer fires.
C17_AdvanceEventuallyCompletes == isPaging ~> ~isPaging

\* an advance has just completed by setting hasMore to FALSE, and isPaging
\* is cleared
C17_Witness ==
    /\ lastOp.op = "loadMoreCompleted"
    /\ ~hasMore
    /\ ~isPaging
    /\ advances = <<>>

\* C18: whenever hasMore is FALSE every item of the filtered list is visible.
C18_NoMoreMeansAllVisible == ~hasMore => AllVisible

\* C19: a completing advance raises the page count by at most one above the
\* value it finds, and sets hasMore to FALSE only if the page count it finds
\* already covers the filtered list it finds.
C19_AdvanceActsOnCurrentValues ==
    [][lastOp'.op = "loadMoreCompleted"
         => /\ currentPage' <= currentPage + 1
            /\ (hasMore /\ ~hasMore') => AllVisible]_vars

\* C20: once the fetch has succeeded (the configuration no longer changing
\* and scroll events near the bottom still coming) every item of the
\* filtered list eventually is visible with hasMore FALSE.
C20_EventuallyAllVisible == fetchedRef ~> (AllVisible /\ ~hasMore)

====
